---- MODULE Spec2Model ----
(***************************************************************************)
(* Model of inst/Python/Textmining.py: the paginated search of one term    *)
(* (TextMining.search), its fan-out over a thread pool                     *)
(* (TextMining.search_all), the overlap of two search mappings             *)
(* (find_overlap), the ancestor expansion (EBI.get_ancestors,              *)
(* get_expanded_df), the pipeline of main that chains them, the hit test   *)
(* (TextMining.can_be_found) and the name lookup (EBI.get_go_names).       *)
(***************************************************************************)
EXTENDS Integers, Sequences, FiniteSets, TLC

(***************************************************************************)
(* Bounds of the model.                                                    *)
(***************************************************************************)
\* longest list of paper ids one search accumulates
MaxIds == 2
\* most successful responses one search receives
MaxReq == 3
\* largest hitCount the search service reports
MaxHits == 2
\* longest ancestor list the ontology service returns for one term
MaxAnc == 1
\* terms submitted to one search_all beyond the size of the pool
ExtraTerms == 1
\* longest list of identifiers passed to get_go_names
MaxIdentifiers == 120

(***************************************************************************)
(* Program constants.                                                      *)
(***************************************************************************)
\* ThreadPoolExecutor(max_workers=10)
max_workers == 10
\* EBI.n, the batch size of the ontology requests
n == 50

(***************************************************************************)
(* The values the program handles.                                         *)
(***************************************************************************)
Papers == {"p1", "p2"}
Cursors == {"*", "c1", "c2"}
\* Go_names.csv, columns GOID and Name (the allowed catalogue)
GOID == <<"GO:1", "GO:2">>
Name == <<"A", "Root">>
\* an ontology id outside the catalogue
Foreign == "GO:9"
\* Metabolite_name.csv, column name
MetName == <<"X">>

Range(s) == {s[k] : k \in 1..Len(s)}
SeqsUpTo(S, k) == UNION {[1..m -> S] : m \in 0..k}
Terms == Range(Name) \cup Range(MetName)

\* the result lists of one page
Pages == SeqsUpTo(Papers, 1) \cup {<<"p1", "p2">>}

(***************************************************************************)
(* The search service. A response is what request_query returns or how it  *)
(* fails: fault names the first statement of the try block that raises on  *)
(* it ("transport": the request or json.loads; the others: the field the   *)
(* response lacks), "none" a well-formed response. The service is         *)
(* consistent: the hitCount of a term is the same on every page, and no    *)
(* page holds more ids than the term has hits.                             *)
(***************************************************************************)
Response(f, h, r, c) == [fault |-> f, hitCount |-> h, result |-> r, nextCursorMark |-> c]
NoResponse == Response("transport", 0, <<>>, "*")

\* every dataset a term can have on the server: a hit count, and for each cursor
\* the page served and the cursor returned with it
Servers ==
    {[hitCount |-> h, page |-> pg, next |-> nx] :
        h \in 0..MaxHits, pg \in [Cursors -> Pages], nx \in [Cursors -> Cursors]}
\* a page holds no more ids than the query has hits
Consistent(s) == \A c \in Cursors : Len(s.page[c]) <= s.hitCount
\* a dataset of one page: the page under "*", then an empty page under "c1"
\* that returns "c1" again
OnePage(pg) ==
    [hitCount |-> Len(pg),
     page |-> [c \in Cursors |-> IF c = "*" THEN pg ELSE <<>>],
     next |-> [c \in Cursors |-> "c1"]]

VARIABLES
    srv,            \* term -> its dataset on the search service
    net,            \* term -> "ok" | "flaky" | "down": how its requests fare
    mainPc,         \* where main (or the caller of search) stands
    list_of_terms,  \* search_all: the terms submitted
    type,           \* self.type
    processed,      \* self.processed
    papers,         \* self.papers
    total,          \* self.total
    dic,            \* search_all: the mapping being built, in insertion order
    pos,            \* search_all: index i of the future being awaited
    pc,             \* task -> "queued" | "loop" | "recv" | "stPapers" | "ldProc" | "stProc" | "done"
    cursor,         \* task -> search's cursor
    ids,            \* task -> search's ids (the future's result once done)
    hitcount,       \* task -> search's hitcount
    tmp,            \* task -> the value loaded by a += in progress
    resp,           \* task -> the response in flight
    served,         \* task -> the ids of the well-formed responses sent to it
    lastNext,       \* task -> the nextCursorMark of the last well-formed response
    answered,       \* task -> the number of well-formed responses sent to it
    finished,       \* the tasks that returned, in the order of their return
    gos,            \* main: gos after search_all
    mets,           \* main: mets after search_all
    df,             \* main: the direct table, a sequence of rows
    onto,           \* ontology id -> the ancestors the ontology service returned for it
    ancestors,      \* get_expanded_df: the mapping get_ancestors returned
    expanded,       \* main: the expanded table, a sequence of rows
    requests,       \* the calls of EBI.get_request so far: <<endpoint, ids sent>>
    identifiers,    \* get_go_names: its argument
    offset,         \* get_go_names: i, the start of the next batch
    names_total,    \* get_go_names: total, the mapping name -> id being built
    found,          \* what the call of can_be_found returned, NotCalled before it
    heap,           \* a call of find_overlap on its own: object id -> the value of the object
    fo              \* a call of find_overlap on its own: the frame of the call

envVars == <<srv, net>>
selfVars == <<type, processed, papers, total>>
allVars == <<list_of_terms, dic, pos>>
taskVars == <<pc, cursor, ids, hitcount, tmp, resp>>
obsVars == <<served, lastNext, answered, finished>>
namesVars == <<identifiers, offset, names_total>>
callVars == <<heap, fo>>
mainVars == <<mainPc, gos, mets, df, onto, ancestors, expanded, requests, namesVars, found,
              callVars>>
vars == <<envVars, selfVars, allVars, taskVars, obsVars, mainVars>>

Tasks == 1..Len(list_of_terms)
term(i) == list_of_terms[i]

(***************************************************************************)
(* TextMining.search, lines 62-85.                                         *)
(***************************************************************************)
\* what the service can answer to a request of term t with cursor c
ServerResponses(t, c) ==
    LET s == srv[t]
        good == Response("none", s.hitCount, s.page[c], s.next[c])
        nocursor == Response("nextCursorMark", s.hitCount, s.page[c], "*")
        bad == {Response("transport", 0, <<>>, "*"),
                Response("hitCount", 0, <<>>, "*"),
                Response("resultList", s.hitCount, <<>>, "*")}
               \cup (IF s.hitCount = 0 THEN {} ELSE {nocursor})
    IN  CASE net[t] = "ok" -> {good}
          [] net[t] = "flaky" -> {good, nocursor} \cup bad
          [] OTHER -> {Response("transport", 0, <<>>, "*")}

\* line 73 reaches line 75's += : the result list is read
ReadsResult(r) == r.fault \in {"none", "nextCursorMark"}
\* the attempt raises somewhere in the try block
Raises(r) == r.fault \in {"transport", "hitCount", "resultList"}
             \/ (r.fault = "nextCursorMark" /\ r.hitCount # 0)
\* line 76, with a comparison of the cursors forgotten
ExitCondHitsOnly(h, cur, r) == h = 0
\* line 76
ExitCond(h, cur, r) == h = 0 \/ cur = r.nextCursorMark
\* line 75, with = in place of +=
ExtendOverwrite(old, r) == r.result
\* line 75
Extend(old, r) == old \o r.result
\* lines 76-82 with "except: break": a failed request ends the loop
AfterAttemptGiveUp(r, cur) ==
    IF Raises(r) \/ (ReadsResult(r) /\ ExitCond(r.hitCount, cur, r)) THEN "stPapers" ELSE "loop"
\* lines 76-82: where the attempt on response r leaves the loop: at the break
\* ("stPapers", the statement after it) or back at its head
AfterAttempt(r, cur) ==
    IF ReadsResult(r) /\ ~Raises(r) /\ ExitCond(r.hitCount, cur, r) THEN "stPapers" ELSE "loop"

\* line 73: the request goes out with the task's cursor and the answer arrives
Respond(i) ==
    /\ pc[i] = "loop"
    /\ \E r \in ServerResponses(term(i), cursor[i]) :
        /\ ReadsResult(r) => Len(ids[i]) + Len(r.result) <= MaxIds
        /\ r.fault = "none" => answered[i] < MaxReq
        /\ resp' = [resp EXCEPT ![i] = r]
        /\ IF r.fault = "none"
           THEN /\ served' = [served EXCEPT ![i] = @ \cup Range(r.result)]
                /\ lastNext' = [lastNext EXCEPT ![i] = r.nextCursorMark]
                /\ answered' = [answered EXCEPT ![i] = @ + 1]
           ELSE UNCHANGED <<served, lastNext, answered>>
    /\ finished' = finished
    /\ pc' = [pc EXCEPT ![i] = "recv"]
    /\ UNCHANGED <<envVars, selfVars, allVars, cursor, ids, hitcount, tmp, mainVars>>

\* lines 74-82: the body of the try block on the response, up to the load of
\* self.papers that begins line 77
Handle(i) ==
    /\ pc[i] = "recv"
    /\ LET r == resp[i]
           parsed74 == r.fault \notin {"transport", "hitCount"}
           done75 == ReadsResult(r)
           leave == AfterAttempt(r, cursor[i]) = "stPapers"
           advance == done75 /\ ~Raises(r) /\ ~leave
       IN  /\ hitcount' = [hitcount EXCEPT ![i] = IF parsed74 THEN r.hitCount ELSE @]
           /\ ids' = [ids EXCEPT ![i] = IF done75 THEN Extend(@, r) ELSE @]
           /\ cursor' = [cursor EXCEPT ![i] = IF advance THEN r.nextCursorMark ELSE @]
           /\ tmp' = [tmp EXCEPT ![i] = IF leave THEN papers ELSE @]
           /\ pc' = [pc EXCEPT ![i] = IF leave THEN "stPapers" ELSE "loop"]
    /\ resp' = [resp EXCEPT ![i] = NoResponse]
    /\ UNCHANGED <<envVars, selfVars, allVars, obsVars, mainVars>>

\* line 77: the store of self.papers += hitcount
StorePapers(i) ==
    /\ pc[i] = "stPapers"
    /\ papers' = tmp[i] + hitcount[i]
    /\ pc' = [pc EXCEPT ![i] = "ldProc"]
    /\ UNCHANGED <<envVars, type, processed, total, allVars, cursor, ids, hitcount, tmp,
                   resp, obsVars, mainVars>>

\* line 84: the load of self.processed += 1
LoadProcessed(i) ==
    /\ pc[i] = "ldProc"
    /\ tmp' = [tmp EXCEPT ![i] = processed]
    /\ pc' = [pc EXCEPT ![i] = "stProc"]
    /\ UNCHANGED <<envVars, selfVars, allVars, cursor, ids, hitcount, resp, obsVars, mainVars>>

\* lines 84-85: the store of self.processed += 1, and the return of ids; the
\* other locals of the call end with it
StoreProcessed(i) ==
    /\ pc[i] = "stProc"
    /\ processed' = tmp[i] + 1
    /\ pc' = [pc EXCEPT ![i] = "done"]
    /\ cursor' = [cursor EXCEPT ![i] = "*"]
    /\ hitcount' = [hitcount EXCEPT ![i] = 0]
    /\ tmp' = [tmp EXCEPT ![i] = 0]
    /\ finished' = Append(finished, i)
    /\ UNCHANGED <<envVars, type, papers, total, allVars, ids, resp, served, lastNext, answered,
                   mainVars>>

\* the service stops answering the requests of term t for good
Outage(t) ==
    /\ net[t] = "flaky"
    /\ \E i \in Tasks : term(i) = t /\ pc[i] \in {"queued", "loop", "recv"}
    /\ net' = [net EXCEPT ![t] = "down"]
    /\ UNCHANGED <<srv, selfVars, allVars, taskVars, obsVars, mainVars>>

(***************************************************************************)
(* Python values: a dict is the sequence of its <<key, value>> items in    *)
(* insertion order; the order in which a set of strings is iterated is not *)
(* fixed by the program (it varies with the hash seed and with the history *)
(* of the set), so every iteration of a set draws its order from Perms.    *)
(***************************************************************************)
Keys(d) == {d[k][1] : k \in 1..Len(d)}
Get(d, key) == d[CHOOSE k \in 1..Len(d) : d[k][1] = key][2]
Put(d, key, v) ==
    IF key \in Keys(d)
    THEN [k \in 1..Len(d) |-> IF d[k][1] = key THEN <<key, v>> ELSE d[k]]
    ELSE Append(d, <<key, v>>)
\* the orders in which the elements of the set S can be iterated
Perms(S) == {p \in [1..Cardinality(S) -> S] : Range(p) = S}

(***************************************************************************)
(* TextMining.search_all, lines 87-109.                                    *)
(***************************************************************************)
\* lines 93-100: the fields are reset and one future per term is submitted
SearchAllBegin(terms, ty) ==
    /\ dic' = <<>>
    /\ type' = ty
    /\ processed' = 0
    /\ papers' = 0
    /\ total' = Len(terms)
    /\ list_of_terms' = terms
    /\ pos' = 1
    /\ pc' = [i \in 1..Len(terms) |-> "queued"]
    /\ cursor' = [i \in 1..Len(terms) |-> "*"]
    /\ ids' = [i \in 1..Len(terms) |-> <<>>]
    /\ hitcount' = [i \in 1..Len(terms) |-> 0]
    /\ tmp' = [i \in 1..Len(terms) |-> 0]
    /\ resp' = [i \in 1..Len(terms) |-> NoResponse]
    /\ served' = [i \in 1..Len(terms) |-> {}]
    /\ lastNext' = [i \in 1..Len(terms) |-> "*"]
    /\ answered' = [i \in 1..Len(terms) |-> 0]
    /\ finished' = <<>>

Running == {i \in Tasks : pc[i] \notin {"queued", "done"}}
\* a pool that runs the futures on one fewer worker
PoolHasRoomOneLess(busy) == busy < max_workers - 1
\* a pool that starts a future while max_workers of them are running
PoolHasRoomOneMore(busy) == busy <= max_workers
\* a worker of the pool is free for the next future of the queue
PoolHasRoom(busy) == busy < max_workers

\* lines 99-100: a free worker takes the oldest queued future and enters search
\* (lines 69-70)
Start(i) ==
    /\ mainPc \in {"searchGO", "searchMet", "search_all"}
    /\ pc[i] = "queued"
    /\ \A j \in Tasks : j < i => pc[j] # "queued"
    /\ PoolHasRoom(Cardinality(Running))
    /\ pc' = [pc EXCEPT ![i] = "loop"]
    /\ ids' = [ids EXCEPT ![i] = <<>>]
    /\ cursor' = [cursor EXCEPT ![i] = "*"]
    /\ UNCHANGED <<envVars, selfVars, allVars, hitcount, tmp, resp, obsVars, mainVars>>

\* lines 105-107, without the test of line 105
StoreResultAlways(d, terms, i, res) == Put(d, terms[i], res)
\* lines 105-107, with the term taken at the position in the mapping instead of i
StoreResultShifted(d, terms, i, res) ==
    IF Len(res) > 0 THEN Put(d, terms[Len(d) + 1], res) ELSE d
\* lines 105-107
StoreResult(d, terms, i, res) ==
    IF Len(res) > 0 THEN Put(d, terms[i], res) ELSE d

\* lines 102-108: f.result() of future i returns and its ids are stored
Collect ==
    /\ mainPc \in {"searchGO", "searchMet", "search_all"}
    /\ pos <= Len(list_of_terms)
    /\ pc[pos] = "done"
    /\ dic' = StoreResult(dic, list_of_terms, pos, ids[pos])
    /\ pos' = pos + 1
    /\ UNCHANGED <<envVars, selfVars, list_of_terms, taskVars, obsVars, mainVars>>

\* line 109 is reached: every future has been collected
SearchAllReturns == pos > Len(list_of_terms)

(***************************************************************************)
(* TextMining.can_be_found, lines 111-113.                                 *)
(***************************************************************************)
\* the outcomes of a call, as the caller sees them
NotCalled == [status |-> "not called", value |-> 0]
\* an exception that leaves the method
Raised == [status |-> "raised", value |-> 0]
\* the method returns v
Returns(v) == [status |-> "returned", value |-> v]
\* the list of terms can_be_found is called with: every term of both files
FoundLists == {Name \o MetName}
\* line 113 on response r: request_query or the subscript res["hitCount"] raises
FoundRaises(r) == r.fault \in {"transport", "hitCount"}
RECURSIVE FoundResponses(_)
\* the responses the requests of line 113 can get, one per term
FoundResponses(terms) ==
    IF terms = <<>> THEN {<<>>}
    ELSE {<<r>> \o rest : r \in ServerResponses(Head(terms), "*"),
                          rest \in FoundResponses(Tail(terms))}
\* line 113: the number of terms whose response reports a hit
can_be_found(rs) == Cardinality({k \in 1..Len(rs) : rs[k].hitCount > 0})

\* lines 112-113, called once on the object after a search_all has returned
\* and before the next statement of main: the type is set, one request with
\* cursor "*" is sent per term, and the count is returned, or the first failing
\* request raises out of the method and of its caller
CanBeFound(terms, ty) ==
    /\ mainPc \in {"searchGO", "searchMet"}
    /\ SearchAllReturns
    /\ found = NotCalled
    /\ type' = ty
    /\ \E rs \in FoundResponses(terms) :
           /\ IF \E k \in 1..Len(terms) : FoundRaises(rs[k])
              THEN found' = Raised /\ mainPc' = "error"
              ELSE found' = Returns(can_be_found(rs)) /\ mainPc' = mainPc
    /\ UNCHANGED <<envVars, processed, papers, total, allVars, taskVars, obsVars, gos, mets, df,
                   onto, ancestors, expanded, requests, namesVars, callVars>>

(***************************************************************************)
(* find_overlap, lines 197-212.                                            *)
(***************************************************************************)
\* line 210, with the union in place of the intersection
ToLoopUnion(go_ids, met_ids) == Range(go_ids) \cup Range(met_ids)
\* line 210
ToLoop(go_ids, met_ids) == Range(go_ids) \cap Range(met_ids)
\* the elements of the set S as iterated in the order ord of Papers
InOrder(S, ord) == SelectSeq(ord, LAMBDA x : x \in S)
\* line 210 builds a new set for every pair of terms: ords[k][j] is the order
\* in which the set of the k-th GO term and the j-th metabolite is iterated
Orders(m, g) == [1..Len(g) -> [1..Len(m) -> Perms(Papers)]]
\* line 211
PairRows(go, go_ids, met, met_ids, ord) ==
    LET to_loop == InOrder(ToLoop(go_ids, met_ids), ord)
    IN  [k \in 1..Len(to_loop) |-> <<go, met, to_loop[k]>>]
RECURSIVE OverMets(_, _, _, _, _)
\* lines 207-211, ordsOfGo the orders of the pairs of this GO term
OverMets(go, go_ids, m, j, ordsOfGo) ==
    IF j > Len(m) THEN <<>>
    ELSE PairRows(go, go_ids, m[j][1], m[j][2], ordsOfGo[j])
         \o OverMets(go, go_ids, m, j + 1, ordsOfGo)
RECURSIVE OverGos(_, _, _, _)
\* lines 206-211
OverGos(m, g, k, ords) ==
    IF k > Len(g) THEN <<>>
    ELSE OverMets(g[k][1], g[k][2], m, 1, ords[k]) \o OverGos(m, g, k + 1, ords)
find_overlap(m, g, ords) == OverGos(m, g, 1, ords)

(***************************************************************************)
(* find_overlap statement by statement, on the objects of the interpreter: *)
(* a mapping is a dict object whose items refer to list objects, and the   *)
(* statements of the function create objects and change objects in place.  *)
(* heap[o] is the value of object o: the items <<key, object of the        *)
(* value>> of a dict, or the elements of a list.                           *)
(***************************************************************************)
\* the caller's two mappings: the dict objects passed as gos and as mets
GosRef == 1
MetsRef == 2
\* the objects of the mappings g and m: the two dicts, then the list of every
\* item of g, then the list of every item of m
HeapOf(g, m) ==
    << [k \in 1..Len(g) |-> <<g[k][1], 2 + k>>],
       [j \in 1..Len(m) |-> <<m[j][1], 2 + Len(g) + j>>] >>
    \o [k \in 1..Len(g) |-> g[k][2]] \o [j \in 1..Len(m) |-> m[j][2]]
\* the mapping held by the dict object d: every key with the value of its list
Deref(h, d) == [k \in 1..Len(h[d]) |-> <<h[d][k][1], h[h[d][k][2]]>>]
\* no call of find_overlap on its own is in progress
NoFrame == [pc |-> "none", gos |-> 0, mets |-> 0, total |-> 0, k |-> 0, j |-> 0,
            count |-> 0, calls |-> 0]
\* a list display that yields an object already in use: the newest one
AllocInUse(h) == Len(h)
\* line 203: the list display [] creates a new object
Alloc(h) == Len(h) + 1
\* object ref takes the value v
Store(h, ref, v) ==
    [o \in 1..(IF ref > Len(h) THEN ref ELSE Len(h)) |-> IF o = ref THEN v ELSE h[o]]

\* lines 197-205: find_overlap is called with the caller's two mappings; total
\* is bound to a new, empty list and count to 0
FindOverlapCall ==
    /\ mainPc = "find_overlap"
    /\ fo.pc \in {"none", "returned"}
    /\ fo.calls < 2
    /\ LET ref == Alloc(heap)
       IN  /\ heap' = Store(heap, ref, <<>>)
           /\ fo' = [pc |-> "loop", gos |-> GosRef, mets |-> MetsRef, total |-> ref,
                     k |-> 1, j |-> 1, count |-> 0, calls |-> fo.calls + 1]
    /\ UNCHANGED <<envVars, selfVars, allVars, taskVars, obsVars, mainPc, gos, mets, df, onto,
                   ancestors, expanded, requests, namesVars, found>>

\* lines 206-211, one pass of the inner loop: the k-th item of gos and the j-th
\* item of mets are read, line 210 builds the set of their common ids from
\* copies of the two lists, and line 211 extends the list total in place
FindOverlapPair ==
    /\ mainPc = "find_overlap"
    /\ fo.pc = "loop"
    /\ fo.k <= Len(heap[fo.gos])
    /\ fo.j <= Len(heap[fo.mets])
    /\ LET goItem == heap[fo.gos][fo.k]
           metItem == heap[fo.mets][fo.j]
           last == fo.j = Len(heap[fo.mets])
       IN  /\ \E ord \in Perms(Papers) :
                  heap' = [heap EXCEPT ![fo.total] =
                              @ \o PairRows(goItem[1], heap[goItem[2]],
                                            metItem[1], heap[metItem[2]], ord)]
           /\ fo' = [fo EXCEPT !.count = @ + 1,
                               !.j = IF last THEN 1 ELSE @ + 1,
                               !.k = IF last THEN @ + 1 ELSE @]
    /\ UNCHANGED <<envVars, selfVars, allVars, taskVars, obsVars, mainPc, gos, mets, df, onto,
                   ancestors, expanded, requests, namesVars, found>>

\* line 212: the loops are exhausted and the table is built from the rows of
\* total
FindOverlapReturn ==
    /\ mainPc = "find_overlap"
    /\ fo.pc = "loop"
    /\ fo.k > Len(heap[fo.gos]) \/ Len(heap[fo.mets]) = 0
    /\ df' = heap[fo.total]
    /\ fo' = [fo EXCEPT !.pc = "returned"]
    /\ UNCHANGED <<envVars, selfVars, allVars, taskVars, obsVars, mainPc, gos, mets, heap, onto,
                   ancestors, expanded, requests, namesVars, found>>

(***************************************************************************)
(* EBI.get_ancestors, lines 153-168, and get_expanded_df, lines 181-195.   *)
(***************************************************************************)
Min(a, b) == IF a < b THEN a ELSE b
\* the dict comprehensions of lines 160-161
Zip(ks, vs, len) == [k \in 1..len |-> <<ks[k], vs[k]>>]
RECURSIVE DictOf(_)
DictOf(items) == IF items = <<>> THEN <<>>
                 ELSE Put(DictOf(SubSeq(items, 1, Len(items) - 1)),
                          items[Len(items)][1], items[Len(items)][2])
\* every ontology id the service knows
OntologyIds == Range(GOID) \cup {Foreign}
AncLists == SeqsUpTo(OntologyIds, MaxAnc)
NoAncestors == [x \in OntologyIds |-> <<>>]
\* the display name of every ontology id, in and out of the catalogue
NameOfId(x) == IF \E k \in 1..Len(GOID) : GOID[k] = x
               THEN Name[CHOOSE k \in 1..Len(GOID) : GOID[k] = x]
               ELSE "Other"

\* line 167, with the comprehension run over allowed instead of r["ancestors"]
AncestorNamesOfCatalogue(r, key, allowed, id_names) ==
    [k \in 1..Len(allowed) |-> Get(id_names, allowed[k])] \o <<key>>
\* line 167, without the filter on the allowed ids
AncestorNamesUnfiltered(r, key, allowed, id_names) ==
    [k \in 1..Len(r.ancestors) |-> NameOfId(r.ancestors[k])] \o <<key>>
\* line 167
AncestorNames(r, key, allowed, id_names) ==
    LET kept == SelectSeq(r.ancestors, LAMBDA a : a \in Range(allowed))
    IN  [k \in 1..Len(kept) |-> Get(id_names, kept[k])] \o <<key>>

RECURSIVE StoreAncestors(_, _, _, _, _)
\* lines 165-167 over the results of one request
StoreAncestors(tot, results, k, allowed, id_names) ==
    IF k > Len(results) THEN tot
    ELSE LET r == results[k]
             key == Get(id_names, r.id)
         IN  StoreAncestors(Put(tot, key, AncestorNames(r, key, allowed, id_names)),
                            results, k + 1, allowed, id_names)

\* get_request(params, "ancestors"), lines 125-131: one result per id asked for
\* that the service knows, carrying the ancestors the service holds for it
AncestorsRequest(batch, remote) ==
    LET known == SelectSeq(batch, LAMBDA x : x \in DOMAIN remote)
    IN  [k \in 1..Len(known) |-> [id |-> known[k], ancestors |-> remote[known[k]]]]

RECURSIVE AncestorBatches(_, _, _, _, _, _)
\* lines 163-167
AncestorBatches(tot, to_search, i, allowed, id_names, remote) ==
    IF i >= Len(to_search) THEN tot
    ELSE LET batch == SubSeq(to_search, i + 1, Min(i + n, Len(to_search)))
         IN  AncestorBatches(
                 StoreAncestors(tot, AncestorsRequest(batch, remote), 1, allowed, id_names),
                 to_search, i + n, allowed, id_names, remote)

\* the exception of a subscript d[key] whose key the dict lacks
KeyError == "KeyError"
\* d[key]
Subscript(d, key) == IF key \in Keys(d) THEN Get(d, key) ELSE KeyError
\* line 162 with names_id.get(x): no name raises
UnknownNameNever(to_search, names) == FALSE
\* line 162 raises KeyError: a name to search is not in names
UnknownName(to_search, names) == \E k \in 1..Len(to_search) : to_search[k] \notin Range(names)

\* line 162: the ids of the distinct names to search, uniq being set(to_search)
\* in the order it is iterated
Searched(to_search, allowed, names, uniq) ==
    LET names_id == DictOf(Zip(names, allowed, Len(names)))
    IN  [k \in 1..Len(uniq) |-> Subscript(names_id, uniq[k])]

\* the slice with its last element left out
SliceOneShort(l, i) == SubSeq(l, i + 1, Min(i + n - 1, Len(l)))
\* l[i : i + self.n], lines 148 and 164
Slice(l, i) == SubSeq(l, i + 1, Min(i + n, Len(l)))
RECURSIVE Batches(_, _)
\* lines 163-164: the slices for i in range(0, len(l), self.n)
Batches(l, i) ==
    IF i >= Len(l) THEN <<>>
    ELSE <<Slice(l, i)>> \o Batches(l, i + n)

\* lines 159-168, when neither line 162 nor a request raises
get_ancestors(to_search, allowed, names, remote, uniq) ==
    LET id_names == DictOf(Zip(allowed, names, Len(names)))
    IN  AncestorBatches(<<>>, Searched(to_search, allowed, names, uniq), 0, allowed, id_names,
                        remote)

RECURSIVE Join(_, _)
\* sep.join(parts)
Join(parts, sep) ==
    IF parts = <<>> THEN ""
    ELSE IF Len(parts) = 1 THEN parts[1]
    ELSE parts[1] \o sep \o Join(Tail(parts), sep)
RECURSIVE SplitFrom(_, _, _, _)
SplitFrom(str, sep, from, k) ==
    IF k > Len(str) THEN <<SubSeq(str, from, Len(str))>>
    ELSE IF SubSeq(str, k, k) = sep
         THEN <<SubSeq(str, from, k - 1)>> \o SplitFrom(str, sep, k + 1, k + 1)
         ELSE SplitFrom(str, sep, from, k + 1)
\* str.split(sep), sep one character
Split(str, sep) == SplitFrom(str, sep, 1, 1)

RECURSIVE Explode(_, _, _)
\* lines 192-194: one row per element of the row's Ancestors list
Explode(rows, cells, k) ==
    IF k > Len(rows) THEN <<>>
    ELSE [j \in 1..Len(cells[k]) |-> <<cells[k][j], rows[k][2], rows[k][3]>>]
         \o Explode(rows, cells, k + 1)

\* line 190 raises KeyError: the mapping lacks the GO term of a row
MissingAncestors(rows, anc) == \E k \in 1..Len(rows) : rows[k][1] \notin Keys(anc)

\* the exception of line 193
AttributeError == [raised |-> "AttributeError"]
\* line 190 on a table without rows assigns an empty list: the column
\* Ancestors is then of dtype float64 and has no .str accessor (line 193)
EmptyColumn(rows) == rows = <<>>

\* lines 190-195, on the mapping anc that get_ancestors returned, when line 190
\* does not raise: line 193 raises on a table without rows
get_expanded_df(rows, anc) ==
    IF EmptyColumn(rows) THEN AttributeError
    ELSE LET joined == [k \in 1..Len(rows) |-> Join(Get(anc, rows[k][1]), "\t")]
             cells == [k \in 1..Len(rows) |-> Split(joined[k], "\t")]
         IN  Explode(rows, cells, 1)

(***************************************************************************)
(* EBI.get_go_names, lines 141-151. An identifier is the accession number  *)
(* of a GO term; the service gives every term a name of its own.           *)
(***************************************************************************)
GoName(x) == <<"name", x>>
\* get_request(params), lines 125-131: one result per id asked for
NamesRequest(batch) == [k \in 1..Len(batch) |-> [id |-> batch[k], name |-> GoName(batch[k])]]
\* lines 149-150 over the results of one request: total[r["name"]] = r["id"]
\* for each result in turn. A name already in total keeps its place and takes
\* the id of the last result that carries it; the other names are appended in
\* the order of their first result.
StoreNames(tot, results) ==
    LET Last(nm) == CHOOSE j \in 1..Len(results) :
                        /\ results[j].name = nm
                        /\ \A j2 \in (j + 1)..Len(results) : results[j2].name # nm
        fresh == SelectSeq([j \in 1..Len(results) |-> j],
                           LAMBDA j : /\ results[j].name \notin Keys(tot)
                                      /\ \A j2 \in 1..(j - 1) : results[j2].name # results[j].name)
        kept == [k \in 1..Len(tot) |->
                    IF \E j \in 1..Len(results) : results[j].name = tot[k][1]
                    THEN <<tot[k][1], results[Last(tot[k][1])].id>>
                    ELSE tot[k]]
    IN  kept \o [k \in 1..Len(fresh) |->
                    <<results[fresh[k]].name, results[Last(results[fresh[k]].name)].id>>]

\* lines 147-150: one turn of the loop, the request of the batch at offset
\* and the merge of its results
GoNamesBatch ==
    /\ mainPc = "get_go_names"
    /\ offset < Len(identifiers)
    /\ LET batch == Slice(identifiers, offset)
       IN  /\ requests' = Append(requests, <<"", batch>>)
           /\ names_total' = StoreNames(names_total, NamesRequest(batch))
    /\ offset' = offset + n
    /\ UNCHANGED <<envVars, selfVars, allVars, taskVars, obsVars, mainPc, gos, mets, df, onto,
                   ancestors, expanded, identifiers, found, callVars>>

\* line 151: the range is exhausted and total is returned
GoNamesReturn ==
    /\ mainPc = "get_go_names"
    /\ offset >= Len(identifiers)
    /\ mainPc' = "names_done"
    /\ UNCHANGED <<envVars, selfVars, allVars, taskVars, obsVars, gos, mets, df, onto,
                   ancestors, expanded, requests, namesVars, found, callVars>>

(***************************************************************************)
(* main, lines 214-248.                                                    *)
(***************************************************************************)
\* lines 230-236: the GO names are read and their search begins
MainStart ==
    /\ mainPc = "start"
    /\ \E terms \in Perms(Range(Name)) : SearchAllBegin(terms, "GO")
    /\ mainPc' = "searchGO"
    /\ UNCHANGED <<envVars, gos, mets, df, onto, ancestors, expanded, requests, namesVars, found,
                   callVars>>

\* lines 236-240: the GO search returns and the metabolite search begins
GoDone ==
    /\ mainPc = "searchGO"
    /\ SearchAllReturns
    /\ gos' = dic
    /\ \E terms \in Perms(Range(MetName)) : SearchAllBegin(terms, "Metabolite")
    /\ mainPc' = "searchMet"
    /\ UNCHANGED <<envVars, mets, df, onto, ancestors, expanded, requests, namesVars, found,
                   callVars>>

\* line 240: the metabolite search returns
MetDone ==
    /\ mainPc = "searchMet"
    /\ SearchAllReturns
    /\ mets' = dic
    /\ mainPc' = "overlap"
    /\ UNCHANGED <<envVars, selfVars, allVars, taskVars, obsVars, gos, df, onto, ancestors,
                   expanded, requests, namesVars, found, callVars>>

\* line 246
Overlap ==
    /\ mainPc = "overlap"
    /\ \E ords \in Orders(mets, gos) : df' = find_overlap(mets, gos, ords)
    /\ mainPc' = "expand"
    /\ UNCHANGED <<envVars, selfVars, allVars, taskVars, obsVars, gos, mets, onto, ancestors,
                   expanded, requests, namesVars, found, callVars>>

\* what the ontology service can hold when the ids asked are requested: it
\* knows every id but, possibly, some of those asked for (gone), and the
\* ancestors of an id that is not asked for are never read
Ontologies(asked) ==
    UNION {{[x \in OntologyIds \ gone |-> IF x \in asked THEN f[x] ELSE <<>>] :
                f \in [asked \ gone -> AncLists]} : gone \in SUBSET asked}

\* lines 247-248: the ontology service answers and the expanded table is
\* written, or line 162 or line 190 raises KeyError, or line 193 raises
\* AttributeError on a direct table without rows, or the first request to the
\* service fails and get_request (line 131) raises
Expand ==
    /\ mainPc = "expand"
    /\ LET to_search == [k \in 1..Len(df) |-> df[k][1]]
       IN  IF UnknownName(to_search, Name)
           THEN mainPc' = "error" /\ UNCHANGED <<onto, ancestors, expanded, requests>>
           ELSE \E uniq \in Perms(Range(to_search)) :
                  LET searched == Searched(to_search, GOID, Name, uniq)
                      batches == Batches(searched, 0)
                  IN  \/ /\ onto' \in Ontologies(Range(searched))
                         /\ requests' =
                                requests \o [k \in 1..Len(batches) |-> <<"ancestors", batches[k]>>]
                         /\ ancestors' = get_ancestors(to_search, GOID, Name, onto', uniq)
                         /\ IF MissingAncestors(df, ancestors') \/ EmptyColumn(df)
                            THEN mainPc' = "error" /\ expanded' = expanded
                            ELSE mainPc' = "end" /\ expanded' = get_expanded_df(df, ancestors')
                      \/ /\ batches # <<>>
                         /\ requests' = Append(requests, <<"ancestors", batches[1]>>)
                         /\ mainPc' = "error"
                         /\ UNCHANGED <<onto, ancestors, expanded>>
    /\ UNCHANGED <<envVars, selfVars, allVars, taskVars, obsVars, gos, mets, df, namesVars, found,
                   callVars>>

Init ==
    /\ \E pg \in [Terms -> Pages] : srv = [t \in Terms |-> OnePage(pg[t])]
    /\ net = [t \in Terms |-> "flaky"]
    /\ mainPc = "start"
    /\ list_of_terms = <<>>
    /\ type = "" /\ processed = 0 /\ papers = 0 /\ total = 0
    /\ dic = <<>> /\ pos = 1
    /\ pc = <<>> /\ cursor = <<>> /\ ids = <<>> /\ hitcount = <<>> /\ tmp = <<>>
    /\ resp = <<>> /\ served = <<>> /\ lastNext = <<>> /\ answered = <<>> /\ finished = <<>>
    /\ gos = <<>> /\ mets = <<>> /\ df = <<>>
    /\ onto = NoAncestors /\ ancestors = <<>> /\ expanded = <<>>
    /\ requests = <<>> /\ identifiers = <<>> /\ offset = 0 /\ names_total = <<>>
    /\ found = NotCalled
    /\ heap = <<>> /\ fo = NoFrame

Next ==
    \/ MainStart
    \/ \E i \in Tasks : Start(i)
    \/ \E i \in Tasks : Respond(i)
    \/ \E i \in Tasks : Handle(i)
    \/ \E i \in Tasks : StorePapers(i)
    \/ \E i \in Tasks : LoadProcessed(i)
    \/ \E i \in Tasks : StoreProcessed(i)
    \/ \E t \in DOMAIN net : Outage(t)
    \/ Collect
    \/ GoDone
    \/ MetDone
    \/ Overlap
    \/ Expand
    \/ \E terms \in FoundLists, ty \in {"GO", "Metabolite"} : CanBeFound(terms, ty)

Spec == Init /\ [][Next]_vars

(***************************************************************************)
(* find_overlap and get_expanded_df on every pair of mappings within the   *)
(* bounds: the values may be empty and may repeat ids.                     *)
(***************************************************************************)
IdLists == SeqsUpTo(Papers, MaxIds)
\* the dicts whose keys are among names, in that order
Dicts(names) ==
    LET Entries == {<<FALSE, <<>> >>} \cup {<<TRUE, l>> : l \in IdLists}
        Items(f) == [k \in 1..Len(names) |-> <<names[k], f[k][2]>>]
    IN  {SelectSeq(Items(f), LAMBDA it : \E k \in 1..Len(names) : names[k] = it[1] /\ f[k][1]) :
            f \in [1..Len(names) -> Entries]}
Idle ==
    /\ srv = [t \in Terms |-> OnePage(<<>>)]
    /\ net = [t \in Terms |-> "ok"]
    /\ list_of_terms = <<>>
    /\ type = "" /\ processed = 0 /\ papers = 0 /\ total = 0
    /\ dic = <<>> /\ pos = 1
    /\ pc = <<>> /\ cursor = <<>> /\ ids = <<>> /\ hitcount = <<>> /\ tmp = <<>>
    /\ resp = <<>> /\ served = <<>> /\ lastNext = <<>> /\ answered = <<>> /\ finished = <<>>
    /\ df = <<>> /\ onto = NoAncestors /\ ancestors = <<>> /\ expanded = <<>>
    /\ requests = <<>> /\ identifiers = <<>> /\ offset = 0 /\ names_total = <<>>
    /\ found = NotCalled

InitOverlap ==
    /\ Idle
    /\ mainPc = "overlap"
    /\ gos \in Dicts(Name)
    /\ mets \in Dicts(<<"X", "Y">>)
    /\ heap = <<>> /\ fo = NoFrame
NextOverlap == Overlap
SpecOverlap == InitOverlap /\ [][NextOverlap]_vars

\* two calls of find_overlap in a row on the same pair of mappings, statement
\* by statement: gos and mets keep the mappings as they were given
InitTwice ==
    /\ Idle
    /\ mainPc = "find_overlap"
    /\ gos \in Dicts(Name)
    /\ mets \in Dicts(<<"X", "Y">>)
    /\ heap = HeapOf(gos, mets)
    /\ fo = NoFrame
NextTwice == FindOverlapCall \/ FindOverlapPair \/ FindOverlapReturn
SpecTwice == InitTwice /\ [][NextTwice]_vars

InitData ==
    /\ Idle
    /\ mainPc = "overlap"
    /\ gos \in Dicts(Name)
    /\ mets \in Dicts(MetName)
    /\ heap = <<>> /\ fo = NoFrame
NextData == Overlap \/ Expand
SpecData == InitData /\ [][NextData]_vars

(***************************************************************************)
(* find_overlap and get_expanded_df on a GO mapping whose terms were read  *)
(* from another version of Go_names.csv than the one line 185 reads: "Old" *)
(* is not in Name.                                                         *)
(***************************************************************************)
DriftNames == <<"A", "Old">>
InitDrift ==
    /\ Idle
    /\ mainPc = "overlap"
    /\ gos \in Dicts(DriftNames)
    /\ mets \in Dicts(MetName)
    /\ heap = <<>> /\ fo = NoFrame
NextDrift == Overlap \/ Expand
SpecDrift == InitDrift /\ [][NextDrift]_vars

(***************************************************************************)
(* One call of get_go_names on a fresh EBI object, with every list of      *)
(* 0..MaxIdentifiers identifiers that are distinct, or distinct but for    *)
(* the last, which repeats the first.                                      *)
(***************************************************************************)
IdentifierLists ==
    {[k \in 1..len |-> k] : len \in 0..MaxIdentifiers}
    \cup {[k \in 1..len |-> IF k = len THEN 1 ELSE k] : len \in 2..MaxIdentifiers}
InitNames ==
    /\ srv = [t \in Terms |-> OnePage(<<>>)]
    /\ net = [t \in Terms |-> "ok"]
    /\ list_of_terms = <<>>
    /\ type = "" /\ processed = 0 /\ papers = 0 /\ total = 0
    /\ dic = <<>> /\ pos = 1
    /\ pc = <<>> /\ cursor = <<>> /\ ids = <<>> /\ hitcount = <<>> /\ tmp = <<>>
    /\ resp = <<>> /\ served = <<>> /\ lastNext = <<>> /\ answered = <<>> /\ finished = <<>>
    /\ gos = <<>> /\ mets = <<>>
    /\ df = <<>> /\ onto = NoAncestors /\ ancestors = <<>> /\ expanded = <<>>
    /\ mainPc = "get_go_names"
    /\ identifiers \in IdentifierLists
    /\ requests = <<>> /\ offset = 0 /\ names_total = <<>>
    /\ found = NotCalled
    /\ heap = <<>> /\ fo = NoFrame
NextNames == GoNamesBatch \/ GoNamesReturn
SpecNames == InitNames /\ [][NextNames]_vars

(***************************************************************************)
(* One call of search_all on a fresh TextMining object with more terms     *)
(* than the pool has workers. Every term has one page of one id; the terms *)
(* whose requests fail from the start are the terms a..max_workers of the  *)
(* list, for a = 1 (as many as workers) or a = 2 (one fewer).              *)
(***************************************************************************)
PoolNames == <<"t01", "t02", "t03", "t04", "t05", "t06", "t07", "t08", "t09", "t10",
               "t11", "t12", "t13", "t14">>
PoolList == SubSeq(PoolNames, 1, max_workers + ExtraTerms)
DownRuns == {a..max_workers : a \in {1, 2}}
InitPool ==
    /\ srv = [t \in Range(PoolList) |-> OnePage(<<"p1">>)]
    /\ \E D \in DownRuns :
           net = [t \in Range(PoolList) |->
                     IF \E k \in D : PoolList[k] = t THEN "down" ELSE "ok"]
    /\ mainPc = "search_all"
    /\ list_of_terms = PoolList
    /\ type = "GO" /\ processed = 0 /\ papers = 0 /\ total = Len(PoolList)
    /\ dic = <<>> /\ pos = 1
    /\ pc = [i \in 1..Len(PoolList) |-> "queued"]
    /\ cursor = [i \in 1..Len(PoolList) |-> "*"]
    /\ ids = [i \in 1..Len(PoolList) |-> <<>>]
    /\ hitcount = [i \in 1..Len(PoolList) |-> 0]
    /\ tmp = [i \in 1..Len(PoolList) |-> 0]
    /\ resp = [i \in 1..Len(PoolList) |-> NoResponse]
    /\ served = [i \in 1..Len(PoolList) |-> {}]
    /\ lastNext = [i \in 1..Len(PoolList) |-> "*"]
    /\ answered = [i \in 1..Len(PoolList) |-> 0]
    /\ finished = <<>>
    /\ gos = <<>> /\ mets = <<>> /\ df = <<>>
    /\ onto = NoAncestors /\ ancestors = <<>> /\ expanded = <<>>
    /\ requests = <<>> /\ identifiers = <<>> /\ offset = 0 /\ names_total = <<>>
    /\ found = NotCalled
    /\ heap = <<>> /\ fo = NoFrame

\* the steps of the worker thread that runs future i
TaskStep(i) ==
    \/ Start(i)
    \/ Respond(i)
    \/ Handle(i)
    \/ StorePapers(i)
    \/ LoadProcessed(i)
    \/ StoreProcessed(i)

NextPool ==
    \/ \E i \in Tasks : TaskStep(i)
    \/ Collect

\* every thread that can take a step is scheduled in the end
FairPool ==
    /\ \A i \in 1..Len(PoolList) : WF_vars(TaskStep(i))
    /\ WF_vars(Collect)

SpecPool == InitPool /\ [][NextPool]_vars /\ FairPool

(***************************************************************************)
(* One call of search("A") on a fresh TextMining object, against every     *)
(* consistent dataset.                                                     *)
(***************************************************************************)
InitSearch ==
    /\ \E s \in {x \in Servers : Consistent(x)} :
        srv = [t \in Terms |-> IF t = "A" THEN s ELSE OnePage(<<>>)]
    /\ \E a \in {"ok", "flaky"} : net = [t \in Terms |-> IF t = "A" THEN a ELSE "ok"]
    /\ mainPc = "search"
    /\ list_of_terms = <<"A">>
    /\ type = "" /\ processed = 0 /\ papers = 0 /\ total = 0
    /\ dic = <<>> /\ pos = 1
    /\ pc = <<"loop">>
    /\ cursor = <<"*">>
    /\ ids = << <<>> >>
    /\ hitcount = <<0>>
    /\ tmp = <<0>>
    /\ resp = <<NoResponse>>
    /\ served = <<{}>>
    /\ lastNext = <<"*">>
    /\ answered = <<0>> /\ finished = <<>>
    /\ gos = <<>> /\ mets = <<>> /\ df = <<>>
    /\ onto = NoAncestors /\ ancestors = <<>> /\ expanded = <<>>
    /\ requests = <<>> /\ identifiers = <<>> /\ offset = 0 /\ names_total = <<>>
    /\ found = NotCalled
    /\ heap = <<>> /\ fo = NoFrame

NextSearch ==
    \/ Respond(1)
    \/ Handle(1)
    \/ StorePapers(1)
    \/ LoadProcessed(1)
    \/ StoreProcessed(1)
    \/ Outage("A")

SpecSearch == InitSearch /\ [][NextSearch]_vars

(***************************************************************************)
(* Properties of find_overlap and of the ancestor expansion.               *)
(***************************************************************************)
Count(rows, row) == Cardinality({k \in 1..Len(rows) : rows[k] = row})
Overlapped == mainPc \in {"expand", "end", "error"}
IdOfName(nm) == GOID[CHOOSE k \in 1..Len(Name) : Name[k] = nm]
\* the set made of g and of the ancestors of g that are in the catalogue
Chain(g) == {g} \cup {NameOfId(x) : x \in Range(onto[IdOfName(g)]) \cap Range(GOID)}

\* C3: find_overlap emits exactly one row (g, m, p) for every GO term g,
\* metabolite term m and paper p of both their id collections, and no other row.
C3_OverlapExact ==
    Overlapped =>
        /\ \A k \in 1..Len(df) : df[k][1] \in Keys(gos) /\ df[k][2] \in Keys(mets)
        /\ \A g \in Keys(gos), m \in Keys(mets), p \in Papers :
               Count(df, <<g, m, p>>) =
                   IF p \in Range(Get(gos, g)) /\ p \in Range(Get(mets, m)) THEN 1 ELSE 0
        /\ \A k \in 1..Len(df) :
               df[k][3] \in Range(Get(gos, df[k][1])) \cap Range(Get(mets, df[k][2]))
C3_Witness ==
    /\ Overlapped
    /\ Keys(gos) = {"A", "Root"} /\ Keys(mets) = {"X", "Y"}
    /\ Get(gos, "A") = <<"p1", "p1">> /\ Get(mets, "Y") = <<"p2", "p1">>
    /\ Len(df) >= 3

\* C4: every direct row (g, m, p) becomes exactly one expanded row (a, m, p) for
\* every a of Chain(g), whatever ancestors the service returned, and the
\* expanded table holds no other row.
C4_ExactlyOneRowPerAncestor ==
    mainPc = "end" =>
        /\ \A k \in 1..Len(expanded) :
               \E j \in 1..Len(df) :
                   /\ expanded[k][1] \in Chain(df[j][1])
                   /\ expanded[k][2] = df[j][2] /\ expanded[k][3] = df[j][3]
        /\ \A a \in Range(Name), m \in Keys(mets), p \in Papers :
               Count(expanded, <<a, m, p>>) =
                   Cardinality({j \in 1..Len(df) :
                       a \in Chain(df[j][1]) /\ df[j][2] = m /\ df[j][3] = p})

\* C5: every ontology term in the mapping of get_ancestors and in the expanded
\* table is a name of the catalogue, whatever ids the service returned.
C5_OnlyCatalogueTerms ==
    /\ \A k \in 1..Len(ancestors) :
           ancestors[k][1] \in Range(Name) /\ Range(ancestors[k][2]) \subseteq Range(Name)
    /\ \A k \in 1..Len(expanded) : expanded[k][1] \in Range(Name)
C5_Witness ==
    /\ mainPc = "end" /\ expanded # <<>>
    /\ \E k \in 1..Len(df) : Foreign \in Range(onto[IdOfName(df[k][1])])

(***************************************************************************)
(* Properties of TextMining.search.                                        *)
(***************************************************************************)
InLoop(i) == pc[i] \in {"loop", "recv"}
Returned(i) == pc[i] = "done"
\* the response in flight to task i makes the attempt fail
Failing(i) ==
    /\ pc[i] = "recv"
    /\ \/ resp[i].fault \in {"transport", "hitCount", "resultList"}
       \/ resp[i].fault = "nextCursorMark" /\ resp[i].hitCount # 0

\* C1: against a service that answers every request well, search starts with
\* cursor "*", sends each time the nextCursorMark of the previous response, and
\* returns exactly the ids of the pages it was served.
C1_SearchReturnsServedPages ==
    \A i \in Tasks :
        net[term(i)] = "ok" =>
            /\ pc[i] = "loop" => cursor[i] = lastNext[i]
            /\ pc[i] = "loop" /\ answered[i] = 0 => cursor[i] = "*"
            /\ pc[i] \notin {"queued", "recv"} => Range(ids[i]) = served[i]
C1_Witness ==
    \E i \in Tasks :
        /\ net[term(i)] = "ok" /\ Returned(i)
        /\ answered[i] = 3 /\ ids[i] = <<"p1", "p2">>

\* a step that takes task i out of the loop handles a response that reports
\* hitCount 0 or returns the cursor that was sent, and every such well-formed
\* response takes it out
C2_LeavesOnlyOnExhaustion ==
    \A i \in Tasks :
        InLoop(i) /\ pc'[i] # pc[i] =>
            /\ ~InLoop(i)' =>
                  /\ pc[i] = "recv" /\ resp[i].fault \in {"none", "nextCursorMark"}
                  /\ \/ resp[i].hitCount = 0
                     \/ resp[i].fault = "none" /\ resp[i].nextCursorMark = cursor[i]
            /\ pc[i] = "recv" /\ resp[i].fault = "none"
                  /\ (resp[i].hitCount = 0 \/ resp[i].nextCursorMark = cursor[i])
               => ~InLoop(i)'
\* the dataset of t returns one and the same cursor whatever cursor is sent
RepeatsCursor(t) == \E k \in Cursors : \A c \in Cursors : srv[t].next[c] = k
\* such a dataset answers at most two requests, and the search has left the
\* loop once the second answer is handled
C2_OneExtraRequest ==
    \A i \in Tasks :
        RepeatsCursor(term(i)) =>
            /\ answered[i] <= 2
            /\ answered[i] = 2 /\ pc[i] # "recv" => ~InLoop(i)
\* C2: the loop of search is left exactly on a response that reports hitCount 0
\* or returns the cursor that was sent; against a dataset that keeps returning
\* the same cursor, search gets at most one request answered beyond the one
\* that first returned that cursor, and then leaves the loop.
C2_PaginationTerminates == [][C2_LeavesOnlyOnExhaustion]_vars /\ []C2_OneExtraRequest
C2_Witness ==
    \E i \in Tasks :
        /\ RepeatsCursor(term(i)) /\ srv[term(i)].hitCount > 0
        /\ answered[i] = 2 /\ Returned(i)

\* a failed attempt leaves the search at the head of its loop with the cursor
\* it had
C9_FailureKeepsPage ==
    \A i \in Tasks :
        Failing(i) /\ pc'[i] # pc[i] => pc'[i] = "loop" /\ cursor'[i] = cursor[i]
\* once every request of the term fails, the search stays in its loop
Stuck(i) == net[term(i)] = "down" /\ (pc[i] = "loop" \/ Failing(i))
C9_DownNeverReturns == \A i \in Tasks : Stuck(i) => Stuck(i)'
\* whatever has failed so far, the next request can be issued
C9_AlwaysRetries ==
    \A i \in Tasks : pc[i] = "loop" /\ net[term(i)] # "ok" => ENABLED Respond(i)
\* C9: after a failed attempt search requests the same page again (the cursor is
\* unchanged), any number of times; it never returns because of failures, and
\* once every request fails it never returns.
C9_RetriesWithoutLimit ==
    /\ [][C9_FailureKeepsPage /\ C9_DownNeverReturns]_vars
    /\ []C9_AlwaysRetries
C9_Witness ==
    \E i \in Tasks :
        /\ net[term(i)] = "down" /\ pc[i] = "loop"
        /\ cursor[i] = "c1" /\ ids[i] # <<>>
(***************************************************************************)
(* Properties of TextMining.search_all and of the pipeline of main.        *)
(***************************************************************************)
Searching == mainPc \in {"searchGO", "searchMet", "search_all"}
ZeroHit(t) == srv[t].hitCount = 0
\* every id the service holds for term t
ServedBy(t) == UNION {Range(srv[t].page[c]) : c \in Cursors}

\* C7: whatever the order in which the tasks return, the mapping of search_all
\* has a key for exactly the collected terms whose search returned an id, and
\* the value under a term is the list its own search returned.
C7_KeyedByTerm ==
    Searching =>
        /\ Keys(dic) \subseteq {term(i) : i \in 1..(pos - 1)}
        /\ \A i \in 1..(pos - 1) :
               /\ term(i) \in Keys(dic) <=> Len(ids[i]) > 0
               /\ term(i) \in Keys(dic) =>
                      /\ Get(dic, term(i)) = ids[i]
                      /\ Range(Get(dic, term(i))) \subseteq ServedBy(term(i))
C7_Witness ==
    /\ Searching /\ SearchAllReturns
    /\ finished = <<2, 1>>
    /\ Keys(dic) = {term(2)}

\* C8: a term for which the service reports hitCount 0 is in no mapping that
\* search_all builds or returns.
C8_ZeroHitAbsent ==
    \A t \in DOMAIN srv :
        ZeroHit(t) => t \notin Keys(dic) /\ t \notin Keys(gos) /\ t \notin Keys(mets)
C8_Witness ==
    /\ Searching /\ SearchAllReturns /\ dic # <<>>
    /\ \E i \in Tasks : ZeroHit(term(i)) /\ hitcount[i] = 0 /\ answered[i] > 0

\* C6 as claimed: a term with zero hits, absent from its mapping, is in no row
\* of the direct table and in no row of the expanded table.
C6_AbsentTermInNoRow ==
    mainPc \in {"expand", "end"} =>
        \A t \in Terms :
            ZeroHit(t) /\ t \notin Keys(gos) \cup Keys(mets) =>
                /\ \A k \in 1..Len(df) : df[k][1] # t /\ df[k][2] # t
                /\ \A k \in 1..Len(expanded) : expanded[k][1] # t /\ expanded[k][2] # t
\* C6 as amended: a term with zero hits, absent from its mapping, is in no row
\* of the direct table and is no metabolite of the expanded table; as a GO term
\* it is in the expanded table only in rows expanded from the direct row of a
\* term that the ontology service gave it as an allowed ancestor of.
C6_AbsentTermOnlyAsAncestor ==
    mainPc \in {"expand", "end"} =>
        \A t \in Terms :
            ZeroHit(t) /\ t \notin Keys(gos) \cup Keys(mets) =>
                /\ \A k \in 1..Len(df) : df[k][1] # t /\ df[k][2] # t
                /\ \A k \in 1..Len(expanded) :
                       /\ expanded[k][2] # t
                       /\ expanded[k][1] = t =>
                              \E j \in 1..Len(df) :
                                  /\ df[j][1] # t /\ t \in Chain(df[j][1])
                                  /\ df[j][2] = expanded[k][2] /\ df[j][3] = expanded[k][3]
C6_Witness ==
    /\ mainPc = "end"
    /\ ZeroHit("Root") /\ "Root" \notin Keys(gos)
    /\ \E k \in 1..Len(expanded) : expanded[k][1] = "Root"

DownTasks == {i \in Tasks : net[term(i)] = "down"}
OthersCompleted == \A i \in Tasks \ DownTasks : pc[i] = "done"

\* C10 as claimed: whatever terms keep failing, the search of every other term
\* is started and runs to completion.
C10_OthersAlwaysComplete == <>OthersCompleted
\* C10 as amended: when fewer terms keep failing than the pool has workers, the
\* search of every other term is started and runs to completion.
C10_OthersCompleteWhileAWorkerIsLeft ==
    Cardinality(DownTasks) < max_workers => <>OthersCompleted
C10_Witness ==
    /\ mainPc = "search_all"
    /\ Cardinality(DownTasks) = max_workers - 1
    /\ \A i \in DownTasks : pc[i] \in {"loop", "recv"}
    /\ Tasks # DownTasks /\ OthersCompleted

\* the searches whose request is out and not yet handled
InFlight == {i \in Tasks : pc[i] = "recv"}
\* a queued search is started only while fewer than max_workers are in progress
C11_StartsOnlyOnFreeWorker ==
    \A i \in Tasks :
        pc[i] = "queued" /\ pc'[i] # "queued" => Cardinality(Running) < max_workers
\* C11: at every moment of a search_all run at most max_workers (10) searches
\* are in progress, hence at most 10 requests are in flight, and a queued term
\* is started only when a worker is free.
C11_AtMostPoolSizeInProgress ==
    /\ [](Cardinality(Running) <= max_workers /\ Cardinality(InFlight) <= max_workers)
    /\ [][C11_StartsOnlyOnFreeWorker]_vars
C11_Witness ==
    /\ mainPc = "search_all"
    /\ Cardinality(Running) = max_workers
    /\ Cardinality(InFlight) = max_workers
    /\ \E i \in Tasks : pc[i] = "queued"

\* no element occurs twice in the list
NoRepeat(l) == Cardinality(Range(l)) = Len(l)
\* C12: the list of paper ids that search returns, and that search_all stores
\* for a term, holds no paper id more than once, whatever responses and
\* failures the search met.
C12_IdsDeduplicated ==
    /\ \A i \in Tasks : Returned(i) => NoRepeat(ids[i])
    /\ \A k \in 1..Len(dic) : NoRepeat(dic[k][2])
    /\ \A k \in 1..Len(gos) : NoRepeat(gos[k][2])

\* C13: when the direct table holds a GO term name that is not in the
\* catalogue, get_ancestors raises before any request to the ontology service
\* is issued and returns no mapping, and get_expanded_df produces no table.
C13_UnknownNameIsAnError ==
    (mainPc \in {"end", "error"} /\ \E k \in 1..Len(df) : df[k][1] \notin Range(Name)) =>
        /\ mainPc = "error"
        /\ requests = <<>>
        /\ ancestors = <<>>
        /\ expanded = <<>>
C13_Witness ==
    /\ mainPc = "error"
    /\ \E k \in 1..Len(df) : df[k][1] \notin Range(Name)
    /\ \E k \in 1..Len(df) : df[k][1] \in Range(Name)

\* the batches sent so far, one after the other
RECURSIVE Sent(_)
Sent(k) == IF k = 0 THEN <<>> ELSE Sent(k - 1) \o requests[k][2]
\* C14: get_go_names on a list of N identifiers issues exactly ceil(N / 50)
\* requests; the batch of request k is the slice of the list that starts after
\* 50 * (k - 1) identifiers and holds at most 50 of them, so that every
\* identifier is sent in exactly one batch; and the mapping returned holds the
\* entry name -> id of every identifier, none overwritten by another.
C14_BatchesOfFifty ==
    mainPc = "names_done" =>
        LET len == Len(identifiers)
        IN  /\ Len(requests) = (len + 49) \div 50
            /\ \A k \in 1..Len(requests) :
                   /\ requests[k][2] = SubSeq(identifiers, 50 * (k - 1) + 1, Min(50 * k, len))
                   /\ Len(requests[k][2]) \in 1..50
            /\ Sent(Len(requests)) = identifiers
            /\ Keys(names_total) = {GoName(x) : x \in Range(identifiers)}
            /\ \A x \in Range(identifiers) : Get(names_total, GoName(x)) = x
            /\ Len(names_total) = Cardinality(Range(identifiers))
C14_Witness ==
    /\ mainPc = "names_done"
    /\ Len(identifiers) = 120 /\ Cardinality(Range(identifiers)) = 120
    /\ Len(requests) = 3
    /\ Len(requests[1][2]) = 50 /\ Len(requests[2][2]) = 50 /\ Len(requests[3][2]) = 20
    /\ Len(names_total) = 120

\* the second call returns the set of rows the first call returned (df)
C15_SameRows ==
    fo.calls = 2 /\ fo.pc = "loop" /\ fo'.pc = "returned" => Range(df') = Range(df)
\* at every statement of either call, the two dict objects hold the keys and
\* the lists hold the ids they were given
C15_InputsUnchanged ==
    mainPc = "find_overlap" => Deref(heap, GosRef) = gos /\ Deref(heap, MetsRef) = mets
\* C15: a second run of find_overlap on the same two mappings yields the same
\* set of rows as the first, whatever the order in which either run iterates
\* its sets, and a run leaves both mappings unchanged.
C15_Idempotent == [][C15_SameRows]_vars /\ []C15_InputsUnchanged
C15_Witness ==
    /\ fo.calls = 2 /\ fo.pc = "loop" /\ fo.k > Len(heap[fo.gos])
    /\ "A" \in Keys(gos) /\ Get(gos, "A") = <<"p2", "p1">>
    /\ "Y" \in Keys(mets) /\ Range(Get(mets, "Y")) = Papers
    /\ \E k \in 1..(Len(df) - 1) : df[k] = <<"A", "Y", "p1">> /\ df[k + 1] = <<"A", "Y", "p2">>
    /\ \E k \in 1..(Len(heap[fo.total]) - 1) :
           heap[fo.total][k] = <<"A", "Y", "p2">> /\ heap[fo.total][k + 1] = <<"A", "Y", "p1">>

\* the sum of the hitCount of the first k terms submitted; the service reports
\* the same hitCount of a term in every response
RECURSIVE SumHits(_)
SumHits(k) == IF k = 0 THEN 0 ELSE SumHits(k - 1) + srv[term(k)].hitCount
\* C16: when search_all returns, self.processed is the number of terms submitted
\* and self.papers is the sum over the terms of the hitCount of the response
\* that ended the term's pagination, whatever the interleaving of the workers.
C16_NoLostUpdate ==
    Searching /\ SearchAllReturns =>
        /\ processed = Len(list_of_terms)
        /\ papers = SumHits(Len(list_of_terms))

\* the ids search collects from dataset s in at most k requests from cursor c
\* on, when no attempt fails
RECURSIVE FailureFree(_, _, _)
FailureFree(s, c, k) ==
    IF k = 0 THEN <<>>
    ELSE s.page[c] \o (IF s.hitCount = 0 \/ s.next[c] = c THEN <<>>
                       ELSE FailureFree(s, s.next[c], k - 1))
\* a failed attempt leaves ids and cursor as they were
C17_FailedAttemptFrame ==
    \A i \in Tasks :
        Failing(i) /\ pc'[i] # pc[i] => ids'[i] = ids[i] /\ cursor'[i] = cursor[i]
\* the ids returned are those of the run without failures
C17_SameAsFailureFree ==
    \A i \in Tasks : Returned(i) => ids[i] = FailureFree(srv[term(i)], "*", MaxReq)
\* C17: an attempt of search that fails at any point (transport, or a response
\* without hitCount, resultList or nextCursorMark) leaves the id list and the
\* cursor unchanged, and a search that met failures returns the ids of the
\* search without failures against the same dataset.
C17_FailuresLeaveNoTrace == [][C17_FailedAttemptFrame]_vars /\ []C17_SameAsFailureFree
====
